---- MODULE Spec2Model ----
(***************************************************************************)
(* Run reports of ctrl_bps: SummaryRunReport/AbridgedRunReport,            *)
(* DetailedRunReport and ExitCodesReport (bps_reports.py, report.py).      *)
(*                                                                         *)
(* Representation of Python values:                                        *)
(*   - None is <<>> and a value v that may be None is <<v>>;               *)
(*   - run_summary, labels and the decimal form of exit codes are          *)
(*     sequences of one-character strings, because the code splits,        *)
(*     parses and sorts them character by character;                       *)
(*   - a dict whose iteration order the code relies on (by_label_expected, *)
(*     job_summary, by_label) is a sequence of <<key, value>> pairs in     *)
(*     insertion order; job_state_counts and the per-label counts are      *)
(*     functions from a set of states to integers;                         *)
(*   - a table row is a sequence of cells.                                 *)
(***************************************************************************)
EXTENDS Integers, Sequences, FiniteSets, TLC

VARIABLES
    view,       \* which report class this report object is
    table,      \* BaseRunReport._table: the rows, in order
    msg,        \* BaseRunReport._msg
    run,        \* the run record last handed to add, as add left it
    last,       \* the last call: what it was given, found and raised
    ncalls      \* number of add and sort calls made on the report so far

vars == <<view, table, msg, run, last, ncalls>>

(***************************************************************************)
(* Bounds of the model.                                                    *)
(***************************************************************************)
MaxCalls == 2
MaxCount == 1

None == <<>>
Some(v) == <<v>>

(***************************************************************************)
(* WmsStates, the enumeration the reports iterate over, in its declared    *)
(* order (lsst.ctrl.bps.wms_service).                                      *)
(***************************************************************************)
WmsStates ==
    <<"UNKNOWN", "MISFIT", "UNREADY", "READY", "PENDING", "RUNNING",
      "DELETED", "HELD", "SUCCEEDED", "FAILED", "PRUNED">>

StateSet == {WmsStates[i] : i \in 1..Len(WmsStates)}

(***************************************************************************)
(* Python built-ins the code uses.                                         *)
(***************************************************************************)
\* ord(c) for the characters that occur in labels, counts and separators.
Ord(c) ==
    CASE c = " " -> 32 [] c = "#" -> 35 [] c = "+" -> 43 [] c = "," -> 44
      [] c = "-" -> 45 [] c = "_" -> 95
      [] c = "." -> 46 [] c = "A" -> 65 [] c = "D" -> 68 [] c = "F" -> 70
      [] c = "H" -> 72 [] c = "L" -> 76 [] c = "O" -> 79 [] c = "T" -> 84
      [] c = "d" -> 100 [] c = "e" -> 101 [] c = "h" -> 104 [] c = "s" -> 115
      [] c = "0" -> 48 [] c = "1" -> 49 [] c = "2" -> 50 [] c = "3" -> 51
      [] c = "4" -> 52 [] c = "5" -> 53 [] c = "6" -> 54 [] c = "7" -> 55
      [] c = "8" -> 56 [] c = "9" -> 57 [] c = ":" -> 58 [] c = ";" -> 59
      [] c = "a" -> 97 [] c = "b" -> 98 [] c = "c" -> 99 [] c = "x" -> 120

IsDigit(c) == Ord(c) >= 48 /\ Ord(c) <= 57

\* s < t for two str values: first differing character decides, a proper
\* prefix is smaller.
RECURSIVE StrLess(_, _)
StrLess(s, t) ==
    IF t = <<>> THEN FALSE
    ELSE IF s = <<>> THEN TRUE
    ELSE IF Head(s) = Head(t) THEN StrLess(Tail(s), Tail(t))
    ELSE Ord(Head(s)) < Ord(Head(t))

\* s.split(sep) for a one-character separator: always at least one piece.
RECURSIVE Split(_, _)
Split(s, sep) ==
    IF s = <<>> THEN << <<>> >>
    ELSE IF Head(s) = sep THEN << <<>> >> \o Split(Tail(s), sep)
    ELSE LET rest == Split(Tail(s), sep)
         IN  << <<Head(s)>> \o rest[1] >> \o Tail(rest)

\* The value of a string of decimal digits.
RECURSIVE DigitsValue(_)
DigitsValue(s) ==
    IF s = <<>> THEN 0
    ELSE 10 * DigitsValue(SubSeq(s, 1, Len(s) - 1)) + (Ord(s[Len(s)]) - 48)

\* s.strip(): s without the whitespace at its ends.
RECURSIVE Strip(_)
Strip(s) ==
    IF s = <<>> THEN s
    ELSE IF Head(s) = " " THEN Strip(Tail(s))
    ELSE IF s[Len(s)] = " " THEN Strip(SubSeq(s, 1, Len(s) - 1))
    ELSE s

\* The digits of an integer literal: what follows its sign.
Unsigned(s) ==
    LET t == Strip(s)
    IN  IF t # <<>> /\ (Head(t) = "-" \/ Head(t) = "+") THEN Tail(t) ELSE t

\* int(s): whitespace at the ends is dropped; then an optional sign and at
\* least one digit, with single underscores allowed between digits; else
\* ValueError.
IntOk(s) ==
    LET body == Unsigned(s)
    IN  /\ body # <<>>
        /\ \A i \in 1..Len(body) : IsDigit(body[i]) \/ body[i] = "_"
        /\ \A i \in 1..Len(body) :
              body[i] = "_" =>
                  /\ i > 1 /\ i < Len(body)
                  /\ IsDigit(body[i - 1]) /\ IsDigit(body[i + 1])

IntOf(s) ==
    LET value == DigitsValue(SelectSeq(Unsigned(s), LAMBDA c : c # "_"))
    IN  IF Head(Strip(s)) = "-" THEN 0 - value ELSE value

\* The decimal digit d as a str.
Digit(d) ==
    CASE d = 0 -> "0" [] d = 1 -> "1" [] d = 2 -> "2" [] d = 3 -> "3"
      [] d = 4 -> "4" [] d = 5 -> "5" [] d = 6 -> "6" [] d = 7 -> "7"
      [] d = 8 -> "8" [] d = 9 -> "9"

\* str(n) as a sequence of characters.
RECURSIVE StrChars(_)
StrChars(n) ==
    IF n < 0 THEN <<"-">> \o StrChars(0 - n)
    ELSE IF n < 10 THEN <<Digit(n)>>
    ELSE StrChars(n \div 10) \o <<Digit(n % 10)>>

\* "".join(chars).
RECURSIVE Concat(_)
Concat(chars) ==
    IF chars = <<>> THEN "" ELSE Head(chars) \o Concat(Tail(chars))

\* sep.join(strs) for a sequence of str.
RECURSIVE Join(_, _)
Join(sep, strs) ==
    IF strs = <<>> THEN ""
    ELSE IF Len(strs) = 1 THEN strs[1]
    ELSE strs[1] \o sep \o Join(sep, Tail(strs))

\* sorted(set(strs)): the distinct elements in ascending str order.
RECURSIVE SortedSet(_)
SortedSet(S) ==
    IF S = {} THEN <<>>
    ELSE LET m == CHOOSE x \in S : \A y \in S \ {x} : StrLess(x, y)
         IN  <<m>> \o SortedSet(S \ {m})

\* sum(xs) for a sequence of integers.
RECURSIVE SumSeq(_)
SumSeq(xs) == IF xs = <<>> THEN 0 ELSE Head(xs) + SumSeq(Tail(xs))

(***************************************************************************)
(* Insertion-ordered dicts as sequences of <<key, value>>.                 *)
(***************************************************************************)
DictKeys(d) == [i \in 1..Len(d) |-> d[i][1]]
DictHas(d, k) == \E i \in 1..Len(d) : d[i][1] = k
DictGet(d, k) == d[CHOOSE i \in 1..Len(d) : d[i][1] = k][2]
\* d[k] = v: an existing key keeps its position.
DictSet(d, k, v) ==
    IF DictHas(d, k)
    THEN [i \in 1..Len(d) |-> IF d[i][1] = k THEN <<k, v>> ELSE d[i]]
    ELSE Append(d, <<k, v>>)

(***************************************************************************)
(* SummaryRunReport.add / AbridgedRunReport.add                            *)
(***************************************************************************)
\* d.get(k, default) on job_state_counts.
Get(d, k, default) == IF k \in DOMAIN d THEN d[k] ELSE default

\* RunFlag with HELD looked at before FAILED and DELETED.
RunFlagHeldFirst(r) ==
    IF r.state = "RUNNING"
    THEN IF Get(r.job_state_counts, "HELD", 0) # 0 THEN "H"
         ELSE IF Get(r.job_state_counts, "FAILED", 0) # 0 THEN "F"
         ELSE IF Get(r.job_state_counts, "DELETED", 0) # 0 THEN "D"
         ELSE " "
    ELSE " "

\* The attention flag of a run.
RunFlag(r) ==
    IF r.state = "RUNNING"
    THEN IF Get(r.job_state_counts, "FAILED", 0) # 0 THEN "F"
         ELSE IF Get(r.job_state_counts, "DELETED", 0) # 0 THEN "D"
         ELSE IF Get(r.job_state_counts, "HELD", 0) # 0 THEN "H"
         ELSE " "
    ELSE " "

\* floor(log2(s / t)) for s, t > 0: the exponent of the double nearest s / t.
RECURSIVE Log2Up(_, _, _)
Log2Up(s, t, e) == IF 2 * (2 ^ e) * t <= s THEN Log2Up(s, t, e + 1) ELSE e
RECURSIVE Log2Down(_, _, _)
Log2Down(s, t, j) == IF s * (2 ^ j) >= t THEN 0 - j ELSE Log2Down(s, t, j + 1)
Log2Floor(s, t) == IF s >= t THEN Log2Up(s, t, 0) ELSE Log2Down(s, t, 1)

\* (2 ^ k) % m without leaving the machine integers.
RECURSIVE PowMod(_, _)
PowMod(k, m) == IF k = 0 THEN 1 % m ELSE (2 * PowMod(k - 1, m)) % m

\* The float quotient s / t is the double m * 2^(e-52) with e = Log2Floor(s, t)
\* and m the integer nearest s * 2^(52-e) / t (ties to even).  QuotientError
\* is m * t - s * 2^(52-e): negative when the quotient was rounded down,
\* positive when it was rounded up, 0 when s / t is a double.
QuotientError(s, t) ==
    LET k  == 52 - Log2Floor(s, t)
        r  == ((s % t) * PowMod(k, t)) % t
        r2 == ((s % (2 * t)) * PowMod(k, 2 * t)) % (2 * t)
    IN  IF 2 * r < t THEN 0 - r
        ELSE IF 2 * r > t THEN t - r
        ELSE IF r2 < t THEN 0 - r ELSE t - r

\* int(s / t * 100) in IEEE-754 double arithmetic, for s >= 0 and t > 0.
\* The product of the rounded quotient by 100 is 100 * s / t plus
\* 100 * QuotientError / (t * 2^(52-e)), and is itself rounded to a double.
\* When 100 * s / t is not an integer the error is far too small to move the
\* product across an integer, and truncation gives the exact floor.  When
\* 100 * s / t is an integer n and the quotient was rounded down, the product
\* lies below n; it is rounded to the double just below n, and truncated to
\* n - 1, when it is nearer to that double than to n.  Half the distance from
\* n down to that double is 2^(E-53), or 2^(E-54) when n is a power of two,
\* with E = floor(log2(n)).
FloatPercent(s, t) ==
    LET n == (100 * s) \div t
    IN  IF s = 0 \/ (100 * s) % t # 0 THEN n
        ELSE LET e == Log2Floor(s, t)
                 E == Log2Floor(n, 1)
                 d == QuotientError(s, t)
                 H == IF n = 2 ^ E THEN 2 ^ (E - e - 2) ELSE 2 ^ (E - e - 1)
             IN  IF d < 0 /\ 100 * (0 - d) > t * H THEN n - 1 ELSE n

\* The success estimate of a run: "UNK" or the decimal string of the estimate.
PercentSucceeded(r) ==
    IF r.total_number_jobs # 0
    THEN Concat(StrChars(FloatPercent(Get(r.job_state_counts, "SUCCEEDED", 0),
                                      r.total_number_jobs)))
    ELSE "UNK"

\* The id column: the global id when use_global_id is set.
RunId(r, use_global_id) == IF use_global_id THEN r.global_wms_id ELSE r.wms_id

\* The row SummaryRunReport.add appends.
SummaryRow(r, use_global_id) ==
    <<RunFlag(r), r.state, PercentSucceeded(r), RunId(r, use_global_id),
      r.operator, r.project, r.campaign, r.payload, r.run>>

(***************************************************************************)
(* The outcome of one add call: the rows it appended, the message and the  *)
(* run record it left behind, and the exception it raised ("" for none).   *)
(***************************************************************************)
Outcome(rows, m, r, raised) ==
    [rows |-> rows, msg |-> m, run |-> r, raised |-> raised]

\* f"WARNING: Job summary for run '{id_}' not available, report maybe incomplete."
NoSummaryMsg(r, use_global_id) ==
    "WARNING: Job summary for run '" \o RunId(r, use_global_id)
        \o "' not available, report maybe incomplete."

NoOrderMsg ==
    "WARNING: Could not determine order of pipeline, instead sorted alphabetically."

\* if run_report.run_summary: neither None nor the empty string.
HasRunSummary(r) == r.run_summary # None /\ r.run_summary[1] # <<>>

\* The pieces of run_summary.split(";"), each split on ":".
SummaryParts(r) ==
    LET parts == Split(r.run_summary[1], ";")
    IN  [i \in 1..Len(parts) |-> Split(parts[i], ":")]

(***************************************************************************)
(* compile_job_summary and its helpers                                     *)
(***************************************************************************)
\* group_jobs_by_label: label -> jobs, labels in order of first appearance.
RECURSIVE GroupJobsByLabel(_, _)
GroupJobsByLabel(jobs, by_label) ==
    IF jobs = <<>> THEN by_label
    ELSE LET job   == Head(jobs)
             group == IF DictHas(by_label, job.label)
                      THEN DictGet(by_label, job.label) ELSE <<>>
         IN  GroupJobsByLabel(Tail(jobs),
                              DictSet(by_label, job.label, Append(group, job)))

\* group_jobs_by_state: every state is a key, each with its jobs in input order.
GroupJobsByState(jobs) ==
    [state \in StateSet |-> SelectSeq(jobs, LAMBDA job : job.state = state)]

\* compile_job_summary: label -> state -> number of jobs.
CompileJobSummary(jobs) ==
    LET by_label == GroupJobsByLabel(jobs, <<>>)
    IN  [i \in 1..Len(by_label) |->
            LET by_label_state == GroupJobsByState(by_label[i][2])
            IN  <<by_label[i][1],
                  [state \in StateSet |-> Len(by_label_state[state])]>>]

(***************************************************************************)
(* DetailedRunReport.add                                                   *)
(***************************************************************************)
\* The run_summary parses: every piece is label:count with an integer count.
ExpectedOk(r) ==
    LET parts == SummaryParts(r)
    IN  \A i \in 1..Len(parts) : Len(parts[i]) = 2 /\ IntOk(parts[i][2])

\* by_label_expected: label -> expected count, in order of first appearance;
\* a repeated label keeps its place and takes the later count.
RECURSIVE ExpectedFrom(_, _)
ExpectedFrom(parts, by_label_expected) ==
    IF parts = <<>> THEN by_label_expected
    ELSE ExpectedFrom(Tail(parts),
                      DictSet(by_label_expected, Head(parts)[1], IntOf(Head(parts)[2])))

ByLabelExpected(r) ==
    IF HasRunSummary(r) THEN ExpectedFrom(SummaryParts(r), <<>>) ELSE <<>>

\* The cells of a row for the states, in enumeration order.
StateCells(counts) == [i \in 1..Len(WmsStates) |-> counts[WmsStates[i]]]

TotalLabel == <<"T", "O", "T", "A", "L">>

\* TotalRow with EXPECTED always taken from total_number_jobs.
TotalRowJobsOnly(r, by_label_expected) ==
    <<TotalLabel>> \o StateCells(r.job_state_counts) \o <<r.total_number_jobs>>

\* The TOTAL row.
TotalRow(r, by_label_expected) ==
    <<TotalLabel>> \o StateCells(r.job_state_counts)
        \o <<IF by_label_expected # <<>>
             THEN SumSeq([i \in 1..Len(by_label_expected) |-> by_label_expected[i][2]])
             ELSE r.total_number_jobs>>

\* sum(counts.values()).
SumCounts(counts) == SumSeq(StateCells(counts))

\* sorted(job_summary): the labels in ascending str order.
SortedLabels(job_summary) ==
    SortedSet({job_summary[i][1] : i \in 1..Len(job_summary)})

\* JobOrder with the fallback in the order job_summary holds its labels.
JobOrderUnsorted(by_label_expected, job_summary) ==
    IF by_label_expected # <<>> THEN DictKeys(by_label_expected)
    ELSE DictKeys(job_summary)

\* The order in which the labels are reported.
JobOrder(by_label_expected, job_summary) ==
    IF by_label_expected # <<>> THEN DictKeys(by_label_expected)
    ELSE SortedLabels(job_summary)

\* Reconciled with the UNREADY count kept from going below zero.
ReconciledClamped(counts, label, by_label_expected) ==
    IF DictHas(by_label_expected, label)
       /\ SumCounts(counts) # DictGet(by_label_expected, label)
    THEN LET adjusted == counts["UNREADY"] + DictGet(by_label_expected, label)
                             - SumCounts(counts)
         IN  [counts EXCEPT !["UNREADY"] = IF adjusted < 0 THEN 0 ELSE adjusted]
    ELSE counts

\* The counts reported for an observed label.  They are the label's entry of
\* job_summary itself, updated in place.
Reconciled(counts, label, by_label_expected) ==
    IF DictHas(by_label_expected, label)
       /\ SumCounts(counts) # DictGet(by_label_expected, label)
    THEN [counts EXCEPT !["UNREADY"] =
              @ + DictGet(by_label_expected, label) - SumCounts(counts)]
    ELSE counts

\* SentinelCounts with zero in place of -1.
SentinelZero == [state \in StateSet |-> 0]

\* The counts reported for a label missing from job_summary.
SentinelCounts == [state \in StateSet |-> 0 - 1]

\* The EXPECTED cell of a label's row.
ExpectedCell(label, by_label_expected) ==
    IF by_label_expected # <<>> THEN DictGet(by_label_expected, label) ELSE 0 - 1

\* The loop over job_order: acc.rows are the rows appended so far and
\* acc.job_summary is job_summary as the loop has left it.
RECURSIVE LabelLoop(_, _, _)
LabelLoop(job_order, by_label_expected, acc) ==
    IF job_order = <<>> THEN acc
    ELSE LET label  == Head(job_order)
             found  == DictHas(acc.job_summary, label)
             counts == IF found
                       THEN Reconciled(DictGet(acc.job_summary, label), label,
                                       by_label_expected)
                       ELSE SentinelCounts
             row    == <<label>> \o StateCells(counts)
                           \o <<ExpectedCell(label, by_label_expected)>>
         IN  LabelLoop(Tail(job_order), by_label_expected,
                       [rows        |-> Append(acc.rows, row),
                        job_summary |-> IF found
                                        THEN DictSet(acc.job_summary, label, counts)
                                        ELSE acc.job_summary])

\* if run_report.job_summary / elif run_report.jobs: not None and not empty.
HasJobSummary(r) == r.job_summary # None /\ r.job_summary[1] # <<>>
HasJobs(r) == r.jobs # None /\ r.jobs[1] # <<>>

\* DetailedRunReport.add(r, use_global_id) on a report whose message is m.
DetailedOutcome(r, use_global_id, m) ==
    IF HasRunSummary(r) /\ ~ExpectedOk(r) THEN Outcome(<<>>, m, r, "ValueError")
    ELSE IF ~(StateSet \subseteq DOMAIN r.job_state_counts)
    THEN Outcome(<<>>, m, r, "KeyError")
    ELSE
    LET by_label_expected == ByLabelExpected(r)
        total == TotalRow(r, by_label_expected)
    IN  IF ~HasJobSummary(r) /\ ~HasJobs(r)
        THEN Outcome(<<total>>, Some(NoSummaryMsg(r, use_global_id)), r, "")
        ELSE
        LET job_summary == IF HasJobSummary(r) THEN r.job_summary[1]
                           ELSE CompileJobSummary(r.jobs[1])
            done == LabelLoop(JobOrder(by_label_expected, job_summary),
                              by_label_expected,
                              [rows |-> <<total>>, job_summary |-> job_summary])
        IN  Outcome(done.rows,
                    IF by_label_expected # <<>> THEN m ELSE Some(NoOrderMsg),
                    IF HasJobSummary(r)
                    THEN [r EXCEPT !.job_summary = Some(done.job_summary)]
                    ELSE r,
                    "")

(***************************************************************************)
(* ExitCodesReport.add                                                     *)
(***************************************************************************)
\* label, _ = part.split(":") succeeds for every piece.
LabelsOk(r) ==
    LET parts == SummaryParts(r)
    IN  \A i \in 1..Len(parts) : Len(parts[i]) = 2

\* labels: one per piece of run_summary, repeats included.
Labels(r) ==
    LET parts == SummaryParts(r)
    IN  [i \in 1..Len(parts) |-> parts[i][1]]

\* pipe_error_count of a non-empty list of exit codes.
PipeErrorCount(exit_codes) == SumSeq(SelectSeq(exit_codes, LAMBDA code : code = 1))

\* InfraCodes with the payload code 1 counted as an infrastructure code.
InfraCodesNonZero(exit_codes) == SelectSeq(exit_codes, LAMBDA code : code # 0)

\* infra_codes.
InfraCodes(exit_codes) == SelectSeq(exit_codes, LAMBDA code : code # 0 /\ code # 1)

\* InfraErrorCount counting each distinct code once.
InfraErrorCountDistinct(infra_codes) ==
    Cardinality({infra_codes[i] : i \in 1..Len(infra_codes)})

\* infra_error_count.
InfraErrorCount(infra_codes) == IF infra_codes # <<>> THEN Len(infra_codes) ELSE 0

\* infra_error_codes.
InfraErrorCodes(infra_codes) ==
    LET str_infra_codes == {StrChars(infra_codes[i]) : i \in 1..Len(infra_codes)}
        sorted == SortedSet(str_infra_codes)
    IN  IF infra_codes # <<>>
        THEN Join(", ", [i \in 1..Len(sorted) |-> Concat(sorted[i])])
        ELSE "None"

\* The row of a label with the given exit codes.
ExitCodesRow(label, exit_codes) ==
    IF exit_codes # <<>>
    THEN <<label, PipeErrorCount(exit_codes),
           InfraErrorCount(InfraCodes(exit_codes)),
           InfraErrorCodes(InfraCodes(exit_codes))>>
    ELSE <<label, 0, 0, "None">>

\* The loop over labels: exit_code_summary[label] raises KeyError for a label
\* that is not a key, after the rows of the labels before it were appended.
RECURSIVE ExitCodesLoop(_, _, _)
ExitCodesLoop(labels, exit_code_summary, rows) ==
    IF labels = <<>> THEN [rows |-> rows, raised |-> ""]
    ELSE IF Head(labels) \notin DOMAIN exit_code_summary
    THEN [rows |-> rows, raised |-> "KeyError"]
    ELSE ExitCodesLoop(Tail(labels), exit_code_summary,
                       Append(rows, ExitCodesRow(Head(labels),
                                                 exit_code_summary[Head(labels)])))

\* ExitCodesReport.add(r, use_global_id) on a report whose message is m.
ExitCodesOutcome(r, use_global_id, m) ==
    IF ~HasRunSummary(r)
    THEN Outcome(<<>>, Some(NoSummaryMsg(r, use_global_id)), r, "")
    ELSE IF ~LabelsOk(r) THEN Outcome(<<>>, m, r, "ValueError")
    ELSE LET done == ExitCodesLoop(Labels(r), r.exit_code_summary, <<>>)
         IN  Outcome(done.rows, m, r, done.raised)

\* SummaryRunReport.add(r, use_global_id) on a report whose message is m.
SummaryOutcome(r, use_global_id, m) ==
    Outcome(<<SummaryRow(r, use_global_id)>>, m, r, "")

(***************************************************************************)
(* The run records the backend hands over.  Each report class is given     *)
(* records that vary in the fields it reads; the other fields keep the     *)
(* values of BaseRun.  Per-label counts in job_summary cover every state,  *)
(* as compile_job_summary and the backends produce them.                   *)
(***************************************************************************)
ZeroCounts == [state \in StateSet |-> 0]

\* job_state_counts with a different count for every state.
FullCounts ==
    [state \in StateSet |-> CHOOSE i \in 1..Len(WmsStates) : WmsStates[i] = state]

NoExitCodes == [label \in {} |-> <<>>]

BaseRun ==
    [state             |-> "RUNNING",
     job_state_counts  |-> ZeroCounts,
     total_number_jobs |-> 7,
     run_summary       |-> None,
     job_summary       |-> None,
     jobs              |-> None,
     exit_code_summary |-> NoExitCodes,
     wms_id            |-> "1.0",
     global_wms_id     |-> "sched#1.0",
     operator          |-> "op",
     project           |-> "proj",
     campaign          |-> "camp",
     payload           |-> "pay",
     run               |-> "run1"]

LabelA == <<"a">>
LabelB == <<"b">>

\* job_state_counts over FAILED, DELETED and HELD: each of them zero or
\* MaxCount, or only some of them, each MaxCount.
FlagCounts ==
    [{"FAILED", "DELETED", "HELD"} -> {0, MaxCount}]
    \cup {[state \in keys |-> MaxCount] : keys \in SUBSET {"FAILED", "DELETED", "HELD"}}

SummaryRuns ==
    {[BaseRun EXCEPT !.job_state_counts = c] : c \in FlagCounts}
    \cup
    {[BaseRun EXCEPT !.state = "SUCCEEDED", !.job_state_counts = c] :
        c \in {c \in FlagCounts : DOMAIN c = {"FAILED", "DELETED", "HELD"}}}
    \cup
    {[BaseRun EXCEPT !.job_state_counts = [state \in {} |-> 0],
                     !.total_number_jobs = t] : t \in {0, 50}}
    \cup
    {[BaseRun EXCEPT !.job_state_counts = [state \in {"SUCCEEDED"} |-> p[1]],
                     !.total_number_jobs = p[2]] :
        p \in {<<5, 0>>, <<1, 3>>, <<29, 50>>, <<29, 100>>, <<150, 200>>,
               <<151, 200>>, <<200, 200>>}}

RunSummaries ==
    {None,
     Some(<<>>),
     Some(<<"b", ":", "1", ";", "a", ":", "1">>),
     Some(<<"a", ":", "1", ";", "a", ":", " ", "+", "2">>),
     Some(<<"a", ":", "x">>)}

\* A backend job summary with one label, a.
OneLabel(unready, succeeded) ==
    <<<<LabelA, [ZeroCounts EXCEPT !["UNREADY"] = unready,
                                   !["SUCCEEDED"] = succeeded]>>>>

\* A backend job summary with two labels, b entered before a.
TwoLabels ==
    <<<<LabelB, [ZeroCounts EXCEPT !["SUCCEEDED"] = 1]>>,
      <<LabelA, [ZeroCounts EXCEPT !["RUNNING"] = 1, !["FAILED"] = 2]>>>>

Job(label, state) == [label |-> label, state |-> state]

SomeJobs ==
    <<Job(LabelB, "SUCCEEDED"), Job(LabelA, "FAILED"), Job(LabelB, "RUNNING")>>

\* <<job_summary, jobs>> as the backend may fill them.
Observed ==
    {<<None, None>>, <<Some(<<>>), Some(<<>>)>>,
     <<Some(TwoLabels), None>>, <<None, Some(SomeJobs)>>}
    \cup
    {<<Some(OneLabel(u, 1)), None>> : u \in 0..MaxCount}

DetailedRuns ==
    {[BaseRun EXCEPT !.job_state_counts = FullCounts, !.run_summary = rs,
                     !.job_summary = o[1], !.jobs = o[2]] :
        rs \in RunSummaries, o \in Observed}
    \cup
    {[BaseRun EXCEPT !.job_state_counts = c, !.run_summary = rs,
                     !.job_summary = Some(TwoLabels)] :
        c \in {[state \in {} |-> 0], [state \in {"SUCCEEDED"} |-> 1]},
        rs \in {None, Some(<<"b", ":", "1", ";", "a", ":", "1">>)}}

ExitCodeSummaries ==
    {NoExitCodes,
     [label \in {LabelB} |-> <<1, 0>>],
     [label \in {LabelA, LabelB} |->
         IF label = LabelA THEN <<1, 1, 2, 0, 3, 3>> ELSE <<>>],
     [label \in {LabelA, LabelB} |->
         IF label = LabelA THEN <<10, 9, 9, 1>> ELSE <<0, 0>>]}

ExitCodesRuns ==
    {[BaseRun EXCEPT !.run_summary = rs, !.exit_code_summary = ecs] :
        rs \in RunSummaries, ecs \in ExitCodeSummaries}

\* The records add may be given: a new one, or the one it was given before.
Given(fresh) == fresh \cup (IF run = None THEN {} ELSE {run[1]})

(***************************************************************************)
(* The report object                                                       *)
(***************************************************************************)
\* The record of a call: its arguments (the run record as it was when the
\* call was made), the number of rows and the message it found, the
\* exception it raised ("" for none), and the call that came before it
\* ("new" on a report just constructed).
Call(op, r, use_global_id, raised) ==
    Some([op |-> op, run |-> r, use_global_id |-> use_global_id,
          nrows |-> Len(table), msg |-> msg, raised |-> raised,
          after |-> IF last = None THEN "new" ELSE last[1].op])

\* BaseRunReport.__init__: a report with no rows and no message.
NewReport == [table |-> <<>>, msg |-> None]

\* BaseRunReport.from_table(table): a report of the class whose table is a
\* copy of the table given, rows included, and that has no message.
FromTable(rows) == [NewReport EXCEPT !.table = rows]

\* The tables from_table is given: rows of an earlier report of the class.
Tables(v) ==
    CASE v = "summary" ->
             {<<SummaryRow(BaseRun, TRUE), SummaryRow(BaseRun, FALSE)>>}
      [] v = "detailed" ->
             {<<<<LabelA>> \o StateCells(OneLabel(1, 1)[1][2]) \o <<2>>,
                <<TotalLabel>> \o StateCells(FullCounts) \o <<2>>>>}
      [] v = "exitcodes" ->
             {<<<<LabelA, 2, 3, "2, 3">>, <<LabelA, 2, 3, "2, 3">>>>}

\* A report comes to exist by its constructor or by from_table; no call
\* has been made on it yet.
Init ==
    /\ view \in {"summary", "detailed", "exitcodes"}
    /\ \E report \in {NewReport} \cup {FromTable(rows) : rows \in Tables(view)} :
          /\ table = report.table
          /\ msg = report.msg
    /\ run = None
    /\ last = None
    /\ ncalls = 0

\* What every add does with its outcome: the rows are appended, the message
\* and the run record are as the call left them.
Apply(op, r, use_global_id, out) ==
    /\ table' = table \o out.rows
    /\ msg' = out.msg
    /\ run' = Some(out.run)
    /\ last' = Call(op, r, use_global_id, out.raised)
    /\ ncalls' = ncalls + 1
    /\ UNCHANGED view

SummaryAdd ==
    /\ view = "summary"
    /\ ncalls < MaxCalls
    /\ \E r \in Given(SummaryRuns), use_global_id \in BOOLEAN :
          Apply("add", r, use_global_id, SummaryOutcome(r, use_global_id, msg))

DetailedAdd ==
    /\ view = "detailed"
    /\ ncalls < MaxCalls
    /\ \E r \in Given(DetailedRuns), use_global_id \in BOOLEAN :
          Apply("add", r, use_global_id, DetailedOutcome(r, use_global_id, msg))

ExitCodesAdd ==
    /\ view = "exitcodes"
    /\ ncalls < MaxCalls
    /\ \E r \in Given(ExitCodesRuns), use_global_id \in BOOLEAN :
          Apply("add", r, use_global_id, ExitCodesOutcome(r, use_global_id, msg))

\* RemoveRows that leaves the last of the rows it was to remove.
RemoveRowsButLast(rows, n) ==
    SubSeq(rows, IF n > 0 THEN n ELSE 1, Len(rows))

\* self._table.remove_rows(slice(n)): the table without its first n rows.
RemoveRows(rows, n) == SubSeq(rows, n + 1, Len(rows))

\* BaseRunReport.clear
Clear ==
    /\ msg' = None
    /\ table' = RemoveRows(table, Len(table))
    /\ last' = Call("clear", None, FALSE, "")
    /\ UNCHANGED <<view, run, ncalls>>

(***************************************************************************)
(* BaseRunReport.sort                                                      *)
(***************************************************************************)
\* The fields the reports are constructed with: <<name, type>>, "S" for a
\* string column and "i" for an integer column.
SummaryFields ==
    <<<<"X", "S">>, <<"STATE", "S">>, <<"%S", "S">>, <<"ID", "S">>,
      <<"OPERATOR", "S">>, <<"PROJECT", "S">>, <<"CAMPAIGN", "S">>,
      <<"PAYLOAD", "S">>, <<"RUN", "S">>>>

DetailedFields ==
    <<<<" ", "S">>>> \o [i \in 1..Len(WmsStates) |-> <<WmsStates[i], "i">>]
        \o <<<<"EXPECTED", "i">>>>

ExitCodesFields ==
    <<<<"label", "S">>, <<"pipe_error_count", "i">>,
      <<"infra_error_count", "i">>, <<"infra_error_codes", "S">>>>

Fields(v) ==
    CASE v = "summary"   -> SummaryFields
      [] v = "detailed"  -> DetailedFields
      [] v = "exitcodes" -> ExitCodesFields

\* self._table.colnames
ColNames(v) == [j \in 1..Len(Fields(v)) |-> Fields(v)[j][1]]

ColIndex(v, name) == CHOOSE j \in 1..Len(Fields(v)) : Fields(v)[j][1] = name

\* The columns argument of sort: a str, held as the one name it is, or a
\* list of str.
StrArg(name) == [kind |-> "str", value |-> <<name>>]
ListArg(names) == [kind |-> "list", value |-> names]

\* if isinstance(columns, str): columns = [columns]
AsList(columns) ==
    IF columns.kind = "str" THEN <<columns.value[1]>> ELSE columns.value

\* set(columns) - set(self._table.colnames)
UnknownKeys(v, columns) ==
    {columns[i] : i \in 1..Len(columns)} \ {ColNames(v)[j] : j \in 1..Len(ColNames(v))}

\* The characters of the str cells of the summary columns X and ID.
Chars(cell) ==
    CASE cell = " " -> <<" ">> [] cell = "F" -> <<"F">>
      [] cell = "D" -> <<"D">> [] cell = "H" -> <<"H">>
      [] cell = "1.0" -> <<"1", ".", "0">>
      [] cell = "sched#1.0" -> <<"s", "c", "h", "e", "d", "#", "1", ".", "0">>

\* a < b for two cells of column j: integers by value, strings by character.
\* The labels of the detailed and exit-codes reports are kept as characters.
CellLess(v, j, a, b) ==
    IF Fields(v)[j][2] = "i" THEN a < b
    ELSE IF v = "summary" THEN StrLess(Chars(a), Chars(b))
    ELSE StrLess(a, b)

\* row1 < row2 on the key columns, the first key that differs deciding.
RECURSIVE RowLess(_, _, _, _)
RowLess(v, keys, row1, row2) ==
    IF keys = <<>> THEN FALSE
    ELSE LET j == ColIndex(v, Head(keys))
         IN  IF row1[j] = row2[j] THEN RowLess(v, Tail(keys), row1, row2)
             ELSE CellLess(v, j, row1[j], row2[j])

\* self._table.sort(keys=columns, reverse=...): the orders in which the rows
\* with indices in S can be left.  Rows that are equal on the keys may be
\* left in any order: that order is the table library's.
RECURSIVE SortedOrders(_, _, _, _, _)
SortedOrders(v, keys, reverse, rows, S) ==
    IF S = {} THEN {<<>>}
    ELSE LET first == {i \in S : \A k \in S :
                         IF reverse THEN ~RowLess(v, keys, rows[i], rows[k])
                         ELSE ~RowLess(v, keys, rows[k], rows[i])}
         IN  UNION {{<<rows[i]>> \o rest :
                       rest \in SortedOrders(v, keys, reverse, rows, S \ {i})} :
                    i \in first}

\* SortOutcomes with the rows sorted on the known columns before the
\* unknown ones are reported.
SortOutcomesSortFirst(v, columns, ascending, rows) ==
    LET keys == AsList(columns)
        known == SelectSeq(keys, LAMBDA key : key \notin UnknownKeys(v, keys))
    IN  {[rows |-> sorted,
          raised |-> IF UnknownKeys(v, keys) # {} THEN "AttributeError" ELSE ""] :
            sorted \in SortedOrders(v, known, ~ascending, rows, 1..Len(rows))}

\* sort(columns, ascending) on a report with the given rows: the rows it may
\* leave and the exception it raises ("" for none).
SortOutcomes(v, columns, ascending, rows) ==
    LET keys == AsList(columns)
    IN  IF UnknownKeys(v, keys) # {}
        THEN {[rows |-> rows, raised |-> "AttributeError"]}
        ELSE {[rows |-> sorted, raised |-> ""] :
                sorted \in SortedOrders(v, keys, ~ascending, rows, 1..Len(rows))}

\* The column arguments sort is given: the key the caller names alone, two
\* keys, a name that is no column, and a column with a name that is none.
SortKeys(v) ==
    CASE v = "summary"   -> <<"ID", "X">>
      [] v = "detailed"  -> <<" ", "EXPECTED">>
      [] v = "exitcodes" -> <<"label", "infra_error_count">>

SortColumns(v) ==
    {StrArg(SortKeys(v)[1]), ListArg(<<SortKeys(v)[2], SortKeys(v)[1]>>),
     StrArg("NOPE"), ListArg(<<SortKeys(v)[1], "NOPE">>)}

SortCall(columns, ascending, raised) ==
    Some([op |-> "sort", run |-> None, use_global_id |-> FALSE,
          nrows |-> Len(table), msg |-> msg, raised |-> raised,
          after |-> IF last = None THEN "new" ELSE last[1].op,
          columns |-> columns, ascending |-> ascending])

Sort ==
    /\ ncalls < MaxCalls
    /\ \E columns \in SortColumns(view), ascending \in BOOLEAN :
          \E out \in SortOutcomes(view, columns, ascending, table) :
              /\ table' = out.rows
              /\ last' = SortCall(columns, ascending, out.raised)
    /\ ncalls' = ncalls + 1
    /\ UNCHANGED <<view, msg, run>>

Next == SummaryAdd \/ DetailedAdd \/ ExitCodesAdd \/ Clear \/ Sort

Spec == Init /\ [][Next]_vars

(***************************************************************************)
(* What the properties below speak about.                                  *)
(***************************************************************************)
\* The last call was an add on a report of the given class.
Added(v) == view = v /\ last # None /\ last[1].op = "add"

\* The run record the last add was given, as it was when add was called.
Arg == last[1].run

\* The rows the last add appended.
NewRows == SubSeq(table, last[1].nrows + 1, Len(table))

\* The column of a state in a detailed row, and the EXPECTED column.
StateCol(state) == 1 + CHOOSE i \in 1..Len(WmsStates) : WmsStates[i] = state
ExpectedCol == Len(WmsStates) + 2

\* run_summary is given and every piece of it is label:count.
Declares(r) == HasRunSummary(r) /\ ExpectedOk(r)

\* The labels run_summary declares, repeats included.
DeclaredLabels(r) ==
    LET parts == SummaryParts(r)
    IN  [i \in 1..Len(parts) |-> parts[i][1]]

\* A sequence without its repeats, each element where it first appears.
RECURSIVE FirstOnly(_)
FirstOnly(seq) ==
    IF seq = <<>> THEN <<>>
    ELSE LET init == FirstOnly(SubSeq(seq, 1, Len(seq) - 1))
         IN  IF \E i \in 1..Len(init) : init[i] = seq[Len(seq)]
             THEN init ELSE Append(init, seq[Len(seq)])

DeclaredOrder(r) == FirstOnly(DeclaredLabels(r))

\* The count run_summary declares for a label (the last one when repeated).
DeclaredCount(r, label) ==
    LET parts == SummaryParts(r)
        i == CHOOSE j \in 1..Len(parts) :
                /\ parts[j][1] = label
                /\ \A k \in (j + 1)..Len(parts) : parts[k][1] # label
    IN  IntOf(parts[i][2])

\* A job summary is at hand: the backend's, or else the individual jobs.
HasObserved(r) == HasJobSummary(r) \/ HasJobs(r)

\* The labels observed and the number of jobs observed per label and state.
ObservedLabels(r) ==
    IF HasJobSummary(r) THEN {r.job_summary[1][i][1] : i \in 1..Len(r.job_summary[1])}
    ELSE {r.jobs[1][i].label : i \in 1..Len(r.jobs[1])}

ObservedCount(r, label, state) ==
    IF HasJobSummary(r) THEN DictGet(r.job_summary[1], label)[state]
    ELSE Cardinality({i \in 1..Len(r.jobs[1]) : r.jobs[1][i] = Job(label, state)})

ObservedSum(r, label) ==
    SumSeq([i \in 1..Len(WmsStates) |-> ObservedCount(r, label, WmsStates[i])])

\* The detailed add can build its TOTAL row: job_state_counts has a count for
\* every state and run_summary, when given, parses.
TotalDefined(r) ==
    /\ StateSet \subseteq DOMAIN r.job_state_counts
    /\ HasRunSummary(r) => ExpectedOk(r)

\* The last add got as far as the per-label rows of a detailed report.
PerLabel == Added("detailed") /\ TotalDefined(Arg) /\ HasObserved(Arg)

\* The sum of the state cells of a detailed row.
RowSum(row) == SumSeq([i \in 1..Len(WmsStates) |-> row[i + 1]])

(***************************************************************************)
(* C1.  Count reconciliation.  In a row that the detailed add emits for a  *)
(* label that run_summary declares and that is observed, the UNREADY cell  *)
(* is the observed UNREADY count plus (expected - observed sum), every     *)
(* other state cell is the observed count, and the state cells sum to the  *)
(* EXPECTED cell, which is the declared count.  The adjustment is zero     *)
(* when the sums agree and negative, unclamped, when too many jobs were    *)
(* observed.                                                               *)
(***************************************************************************)
C1_Reconciliation ==
    (PerLabel /\ Declares(Arg)) =>
        \A i \in 2..Len(NewRows) :
            LET row == NewRows[i]
                label == row[1]
            IN  label \in ObservedLabels(Arg) =>
                    /\ row[StateCol("UNREADY")] =
                           ObservedCount(Arg, label, "UNREADY")
                               + (DeclaredCount(Arg, label) - ObservedSum(Arg, label))
                    /\ \A state \in StateSet \ {"UNREADY"} :
                           row[StateCol(state)] = ObservedCount(Arg, label, state)
                    /\ row[ExpectedCol] = DeclaredCount(Arg, label)
                    /\ RowSum(row) = row[ExpectedCol]

\* A label observed with more jobs than declared was reported with a
\* negative UNREADY count: 0 + (1 - 3).
C1_Witness ==
    /\ PerLabel /\ Declares(Arg)
    /\ \E i \in 2..Len(NewRows) :
          /\ NewRows[i][1] \in ObservedLabels(Arg)
          /\ ObservedSum(Arg, NewRows[i][1]) = 3
          /\ DeclaredCount(Arg, NewRows[i][1]) = 1
          /\ NewRows[i][StateCol("UNREADY")] = 0 - 2
          /\ NewRows[i][StateCol("FAILED")] = 2

(***************************************************************************)
(* C2.  The TOTAL row.  Every detailed add whose TOTAL row is defined      *)
(* returns and appends the TOTAL row first and only once, also when        *)
(* neither job_summary nor jobs is at hand.  Its state cells are the run's *)
(* job_state_counts in enumeration order; its EXPECTED cell is the sum of  *)
(* the declared per-label counts when run_summary is given, and            *)
(* total_number_jobs otherwise.                                            *)
(***************************************************************************)
C2_TotalRow ==
    (Added("detailed") /\ TotalDefined(Arg)) =>
        /\ last[1].raised = ""
        /\ Len(NewRows) >= 1
        /\ NewRows[1][1] = TotalLabel
        /\ \A i \in 2..Len(NewRows) : NewRows[i][1] # TotalLabel
        /\ \A i \in 1..Len(WmsStates) :
              NewRows[1][i + 1] = Arg.job_state_counts[WmsStates[i]]
        /\ NewRows[1][ExpectedCol] =
              IF HasRunSummary(Arg)
              THEN SumSeq([i \in 1..Len(DeclaredOrder(Arg)) |->
                              DeclaredCount(Arg, DeclaredOrder(Arg)[i])])
              ELSE Arg.total_number_jobs
        /\ ~HasObserved(Arg) => Len(NewRows) = 1

\* With neither job_summary nor jobs, the TOTAL row alone was appended, its
\* EXPECTED cell the declared 1 + 1 and not the 7 of total_number_jobs.
C2_Witness ==
    /\ Added("detailed") /\ TotalDefined(Arg)
    /\ Arg.job_summary = None /\ Arg.jobs = None
    /\ HasRunSummary(Arg)
    /\ Len(NewRows) = 1
    /\ NewRows[1][1] = TotalLabel
    /\ NewRows[1][ExpectedCol] = 2
    /\ Arg.total_number_jobs = 7

(***************************************************************************)
(* C3.  Sentinel rows.  When the detailed add reports per label from a     *)
(* run_summary, a declared label that is not observed has exactly one row, *)
(* at its place in run_summary order, with -1 in every state cell and the  *)
(* declared count in the EXPECTED cell.                                    *)
(***************************************************************************)
C3_SentinelRow ==
    (PerLabel /\ Declares(Arg)) =>
        /\ Len(NewRows) = 1 + Len(DeclaredOrder(Arg))
        /\ \A k \in 1..Len(DeclaredOrder(Arg)) :
              LET label == DeclaredOrder(Arg)[k]
              IN  label \notin ObservedLabels(Arg) =>
                      /\ NewRows[k + 1][1] = label
                      /\ \A state \in StateSet : NewRows[k + 1][StateCol(state)] = 0 - 1
                      /\ NewRows[k + 1][ExpectedCol] = DeclaredCount(Arg, label)
                      /\ \A j \in 1..Len(NewRows) :
                            j # k + 1 => NewRows[j][1] # label

\* Label b, declared first and not observed, was reported before the
\* observed label a, with -1 everywhere and EXPECTED 1.
C3_Witness ==
    /\ PerLabel /\ Declares(Arg)
    /\ DeclaredOrder(Arg) = <<LabelB, LabelA>>
    /\ ObservedLabels(Arg) = {LabelA}
    /\ Len(NewRows) = 3
    /\ NewRows[2][1] = LabelB
    /\ NewRows[2][StateCol("UNREADY")] = 0 - 1
    /\ NewRows[2][ExpectedCol] = 1
    /\ NewRows[3][1] = LabelA

(***************************************************************************)
(* C4.  Order of the per-label rows.  When the detailed add reports per    *)
(* label without a run_summary (None or empty), the rows are the observed  *)
(* labels in ascending order, each with its observed counts and EXPECTED   *)
(* -1, and the message is the warning that the order could not be          *)
(* determined.  With a run_summary the rows are its labels in its order.   *)
(***************************************************************************)
C4_RowOrder ==
    PerLabel =>
        IF HasRunSummary(Arg)
        THEN [i \in 1..(Len(NewRows) - 1) |-> NewRows[i + 1][1]] = DeclaredOrder(Arg)
        ELSE /\ {NewRows[i][1] : i \in 2..Len(NewRows)} = ObservedLabels(Arg)
             /\ \A i \in 2..Len(NewRows) : \A j \in (i + 1)..Len(NewRows) :
                   StrLess(NewRows[i][1], NewRows[j][1])
             /\ \A i \in 2..Len(NewRows) :
                   /\ \A state \in StateSet :
                         NewRows[i][StateCol(state)]
                             = ObservedCount(Arg, NewRows[i][1], state)
                   /\ NewRows[i][ExpectedCol] = 0 - 1
             /\ msg = Some("WARNING: Could not determine order of pipeline, instead sorted alphabetically.")

\* A job summary holding b before a, and no run_summary: a was reported
\* before b, with its counts as observed.
C4_Witness ==
    /\ PerLabel /\ ~HasRunSummary(Arg)
    /\ HasJobSummary(Arg)
    /\ DictKeys(Arg.job_summary[1]) = <<LabelB, LabelA>>
    /\ Len(NewRows) = 3
    /\ NewRows[2][1] = LabelA /\ NewRows[3][1] = LabelB
    /\ NewRows[2][StateCol("FAILED")] = 2
    /\ NewRows[2][ExpectedCol] = 0 - 1
    /\ msg # None

(***************************************************************************)
(* Exit codes, as the properties count them.                               *)
(***************************************************************************)
\* How many of the codes are in the set S.
HowMany(codes, S) == Cardinality({j \in 1..Len(codes) : codes[j] \in S})

\* The codes other than 0 and 1.
OtherCodes(codes) == {codes[j] : j \in 1..Len(codes)} \ {0, 1}

\* Their decimal forms, each once, in ascending str order, joined by ", ".
OtherCodesText(codes) ==
    LET sorted == SortedSet({StrChars(c) : c \in OtherCodes(codes)})
    IN  Join(", ", [i \in 1..Len(sorted) |-> Concat(sorted[i])])

\* Every label run_summary declares is a key of exit_code_summary.
AllRecorded(r) ==
    \A i \in 1..Len(DeclaredLabels(r)) :
        DeclaredLabels(r)[i] \in DOMAIN r.exit_code_summary

(***************************************************************************)
(* C5.  Exit-code classification.  When run_summary is given and every     *)
(* label it declares has its exit codes recorded, the exit-codes add       *)
(* appends one row per declared label, in run_summary order: the label,    *)
(* the number of codes equal to 1, the number of codes that are neither 0  *)
(* nor 1 (repeats counted), and those codes, each once, as strings in      *)
(* ascending str order joined by ", ", or "None" when there are none.      *)
(***************************************************************************)
C5_Classification ==
    (Added("exitcodes") /\ HasRunSummary(Arg) /\ LabelsOk(Arg) /\ AllRecorded(Arg)) =>
        /\ last[1].raised = ""
        /\ Len(NewRows) = Len(DeclaredLabels(Arg))
        /\ \A i \in 1..Len(NewRows) :
              LET label == DeclaredLabels(Arg)[i]
                  codes == Arg.exit_code_summary[label]
              IN  /\ NewRows[i][1] = label
                  /\ NewRows[i][2] = HowMany(codes, {1})
                  /\ NewRows[i][3] = HowMany(codes, OtherCodes(codes))
                  /\ NewRows[i][4] = IF OtherCodes(codes) = {} THEN "None"
                                     ELSE OtherCodesText(codes)

\* The codes 10, 9, 9, 1 of label a were reported as one payload error and
\* three infrastructure errors with codes "10, 9".
C5_Witness ==
    /\ Added("exitcodes") /\ HasRunSummary(Arg) /\ LabelsOk(Arg) /\ AllRecorded(Arg)
    /\ DeclaredLabels(Arg) = <<LabelB, LabelA>>
    /\ Arg.exit_code_summary[LabelA] = <<10, 9, 9, 1>>
    /\ Len(NewRows) = 2
    /\ NewRows[2] = <<LabelA, 1, 3, "10, 9">>
    /\ NewRows[1] = <<LabelB, 0, 0, "None">>

(***************************************************************************)
(* C6.  The worked example of the classification.  As claimed: the exit    *)
(* codes 1, 1, 2, 0, 3, 3 of a label give 2 payload errors, 2              *)
(* infrastructure errors and the codes "2, 3", and an empty list gives     *)
(* 0, 0 and "None".                                                        *)
(***************************************************************************)
C6_Example_Original ==
    Added("exitcodes") =>
        \A i \in 1..Len(NewRows) :
            LET label == DeclaredLabels(Arg)[i]
                codes == Arg.exit_code_summary[label]
            IN  /\ codes = <<1, 1, 2, 0, 3, 3>> => NewRows[i] = <<label, 2, 2, "2, 3">>
                /\ codes = <<>> => NewRows[i] = <<label, 0, 0, "None">>

(***************************************************************************)
(* C6, amended.  The exit codes 1, 1, 2, 0, 3, 3 of a label give 2 payload *)
(* errors, 3 infrastructure errors (the codes 2, 3 and 3, repeats counted) *)
(* and the codes "2, 3"; an empty list gives 0, 0 and "None".              *)
(***************************************************************************)
C6_Example ==
    Added("exitcodes") =>
        \A i \in 1..Len(NewRows) :
            LET label == DeclaredLabels(Arg)[i]
                codes == Arg.exit_code_summary[label]
            IN  /\ codes = <<1, 1, 2, 0, 3, 3>> => NewRows[i] = <<label, 2, 3, "2, 3">>
                /\ codes = <<>> => NewRows[i] = <<label, 0, 0, "None">>

\* Both cases of the example were reported by one add.
C6_Witness ==
    /\ Added("exitcodes") /\ HasRunSummary(Arg) /\ LabelsOk(Arg) /\ AllRecorded(Arg)
    /\ DeclaredLabels(Arg) = <<LabelB, LabelA>>
    /\ Arg.exit_code_summary[LabelA] = <<1, 1, 2, 0, 3, 3>>
    /\ Arg.exit_code_summary[LabelB] = <<>>
    /\ Len(NewRows) = 2
    /\ NewRows[2][3] = 3

(***************************************************************************)
(* C7.  The attention flag.  The summary add appends one row whose flag is *)
(* blank for a run that is not RUNNING, whatever its counts; for a RUNNING *)
(* run it is F when the FAILED count is not zero, else D when the DELETED  *)
(* count is not zero, else H when the HELD count is not zero, else blank.  *)
(* A state that job_state_counts does not have counts as zero.             *)
(***************************************************************************)
CountOr0(r, state) ==
    IF state \in DOMAIN r.job_state_counts THEN r.job_state_counts[state] ELSE 0

C7_AttentionFlag ==
    Added("summary") =>
        /\ Len(NewRows) = 1
        /\ Arg.state # "RUNNING" => NewRows[1][1] = " "
        /\ Arg.state = "RUNNING" =>
              /\ CountOr0(Arg, "FAILED") # 0 => NewRows[1][1] = "F"
              /\ (CountOr0(Arg, "FAILED") = 0 /\ CountOr0(Arg, "DELETED") # 0)
                    => NewRows[1][1] = "D"
              /\ (/\ CountOr0(Arg, "FAILED") = 0
                  /\ CountOr0(Arg, "DELETED") = 0
                  /\ CountOr0(Arg, "HELD") # 0) => NewRows[1][1] = "H"
              /\ (/\ CountOr0(Arg, "FAILED") = 0
                  /\ CountOr0(Arg, "DELETED") = 0
                  /\ CountOr0(Arg, "HELD") = 0) => NewRows[1][1] = " "

\* A RUNNING run with failed and held jobs, and no DELETED count at all,
\* was flagged F.
C7_Witness ==
    /\ Added("summary")
    /\ Arg.state = "RUNNING"
    /\ DOMAIN Arg.job_state_counts = {"FAILED", "HELD"}
    /\ Arg.job_state_counts["FAILED"] # 0
    /\ Arg.job_state_counts["HELD"] # 0
    /\ NewRows[1][1] = "F"

(***************************************************************************)
(* C8.  The success percentage.  As claimed: the %S cell is "UNK" when     *)
(* total_number_jobs is zero, and otherwise the decimal string of          *)
(* floor(100 * s / t) for the succeeded count s (0 when SUCCEEDED is       *)
(* missing) and the total t.                                               *)
(***************************************************************************)
C8_FloorPercent ==
    Added("summary") =>
        NewRows[1][3] =
            IF Arg.total_number_jobs = 0 THEN "UNK"
            ELSE Concat(StrChars((100 * CountOr0(Arg, "SUCCEEDED"))
                                     \div Arg.total_number_jobs))

(***************************************************************************)
(* C9.  As claimed: add on any report, given a run whose run_summary is    *)
(* absent or well formed, returns without an exception, whatever optional  *)
(* data is missing: job_summary and jobs, some states of job_state_counts, *)
(* or the exit codes of a declared label.                                  *)
(***************************************************************************)
C9_NeverRaises ==
    (/\ last # None
     /\ last[1].op = "add"
     /\ HasRunSummary(Arg) => ExpectedOk(Arg)) => last[1].raised = ""

(***************************************************************************)
(* C10.  As claimed: the message is reset at the start of every add, so    *)
(* after an add that returns it is that add's own warning, and None when   *)
(* that add met no missing data, whatever the adds before it left.         *)
(***************************************************************************)
\* The warning an add of the run would set on a new report of this class.
OwnMessage(r, use_global_id) ==
    IF view = "detailed" /\ ~HasObserved(r)
    THEN Some("WARNING: Job summary for run '"
                  \o (IF use_global_id THEN r.global_wms_id ELSE r.wms_id)
                  \o "' not available, report maybe incomplete.")
    ELSE IF view = "detailed" /\ ~HasRunSummary(r)
    THEN Some("WARNING: Could not determine order of pipeline, instead sorted alphabetically.")
    ELSE IF view = "exitcodes" /\ ~HasRunSummary(r)
    THEN Some("WARNING: Job summary for run '"
                  \o (IF use_global_id THEN r.global_wms_id ELSE r.wms_id)
                  \o "' not available, report maybe incomplete.")
    ELSE None

C10_MessageReset ==
    (last # None /\ last[1].op = "add" /\ last[1].raised = "") =>
        msg = OwnMessage(Arg, last[1].use_global_id)

(***************************************************************************)
(* C11.  Reuse after clear.  clear leaves the report with no rows and no   *)
(* message, whatever calls came before it; an add that follows a clear     *)
(* leaves exactly the rows that the same add leaves on a report just       *)
(* constructed, in the same order and cell by cell (also when the add      *)
(* raised part of the way).                                                *)
(***************************************************************************)
\* The rows of a new report of the given class after one add of the run.
FreshRows(v, r, use_global_id) ==
    CASE v = "summary"   -> SummaryOutcome(r, use_global_id, None).rows
      [] v = "detailed"  -> DetailedOutcome(r, use_global_id, None).rows
      [] v = "exitcodes" -> ExitCodesOutcome(r, use_global_id, None).rows

C11_ReuseAfterClear ==
    /\ (last # None /\ last[1].op = "clear") => (table = <<>> /\ msg = None)
    /\ (last # None /\ last[1].op = "add" /\ last[1].after = "clear") =>
           table = FreshRows(view, Arg, last[1].use_global_id)

\* A detailed report was given a run, cleared, and then given a run with
\* two declared labels: it holds the TOTAL row and the two label rows of
\* that run alone.
C11_Witness ==
    /\ Added("detailed") /\ last[1].after = "clear"
    /\ ncalls = 2
    /\ Len(table) = 3
    /\ table[1][1] = TotalLabel
    /\ table[2][1] = LabelB /\ table[3][1] = LabelA

(***************************************************************************)
(* What a sort call did.                                                   *)
(***************************************************************************)
\* How many times a row occurs among the rows.
Occurrences(rows, row) == Cardinality({i \in 1..Len(rows) : rows[i] = row})

\* The same rows, each as many times, in whatever order.
SameRows(rows1, rows2) ==
    /\ Len(rows1) = Len(rows2)
    /\ \A i \in 1..Len(rows1) :
          Occurrences(rows1, rows1[i]) = Occurrences(rows2, rows1[i])

\* The names the last sort was given, and whether one of them is no column
\* of the report.
SortedOn == AsList(last[1].columns)
NamesUnknown(names) ==
    \E i \in 1..Len(names) : \A j \in 1..Len(ColNames(view)) : names[i] # ColNames(view)[j]

\* A step that is a sort call, seen from the state before it.
SortStep ==
    (last' # None /\ last'[1].op = "sort") =>
        /\ msg' = msg
        /\ IF NamesUnknown(AsList(last'[1].columns))
           THEN last'[1].raised = "AttributeError" /\ table' = table
           ELSE last'[1].raised = "" /\ SameRows(table, table')

(***************************************************************************)
(* C12.  Sorting.  A sort call given at least one name that is no column   *)
(* of the report raises AttributeError and leaves the rows, their order    *)
(* and the message as they were, also when it is given columns of the      *)
(* report along with it.  Given columns of the report only, it returns,    *)
(* leaves the message as it was and leaves the same rows, each as many     *)
(* times as before.                                                        *)
(***************************************************************************)
C12_Sort == [][SortStep]_vars

\* A detailed report holding TOTAL, a, b and the order warning was to be
\* sorted in descending order on its label column and a name that is no
\* column: the call raised and the rows are still TOTAL, a, b.
C12_Witness ==
    /\ view = "detailed"
    /\ last # None /\ last[1].op = "sort"
    /\ last[1].columns = ListArg(<<" ", "NOPE">>)
    /\ ~last[1].ascending
    /\ last[1].raised = "AttributeError"
    /\ msg = Some(NoOrderMsg)
    /\ Len(table) = 3
    /\ table[1][1] = TotalLabel /\ table[2][1] = LabelA /\ table[3][1] = LabelB

(***************************************************************************)
(* C13.  As claimed: add does not change the run record it is given.       *)
(* After an add that returned, on any report, the record is as it was when *)
(* it was handed over, the per-label counts of its job_summary included.   *)
(***************************************************************************)
C13_InputUnchanged ==
    (last # None /\ last[1].op = "add" /\ last[1].raised = "") =>
        run = Some(Arg)
====
